---- MODULE Spec2Model ----
(***************************************************************************)
(* A model of two parts of eclsdk:                                         *)
(*   - ecl/orchestration/v1/_proxy.py: Proxy.validate_template,            *)
(*     Proxy.abandon_stack and the list-style methods of the Proxy;        *)
(*   - ecl/security_order/v1/single_firewall.py: SingleFirewall.list and   *)
(*     SingleFirewall._translate_list_response.                            *)
(* Python's None is the empty tuple <<>>; a present value x is <<x>> or a  *)
(* non-empty tuple of tokens. A Python string is a tuple of string tokens  *)
(* (so that "%s" formatting is concatenation).                             *)
(***************************************************************************)
EXTENDS Integers, Sequences, FiniteSets, TLC

VARIABLES
    call,     \* Proxy: the call last made (method, arguments, what the server answers)
    reqs,     \* Proxy: the session requests that call issued, in order
    steps,    \* Proxy: the resource-object operations that call performed, in order
    out,      \* Proxy: how the call ended (returned value or raised exception)
    it,       \* Proxy: the caller's iteration over the result of a list-style call
    res,      \* SingleFirewall: the instance (_body / _header attributes and dirty sets)
    payload,  \* SingleFirewall: the response last handled (json body, headers, has_body)
    lastOp,   \* SingleFirewall: the operation last applied to the instance
    fwOut,    \* SingleFirewall: how that operation ended ("ok" or the exception type)
    hist      \* SingleFirewall: what the history of the instance says (see HistAfter)

proxyVars == <<call, reqs, steps, out, it>>
fwVars == <<res, payload, lastOp, fwOut, hist>>
vars == <<call, reqs, steps, out, it, res, payload, lastOp, fwOut, hist>>

None == <<>>

\* ---------------------------------------------------------------- bounds
MaxErr == 2      \* distinct errors the server side can answer with
MaxItems == 2    \* elements the server returns to one list call
MaxPasses == 2   \* iteration passes a caller makes over one result

\* ------------------------------------------------------------ exceptions
\* ecl.exceptions: every error carries message, details, response,
\* request_id, url, method, http_status and cause.
Exc(cls, message, details, response, request_id, url, method, http_status, cause) ==
    [cls |-> cls, message |-> message, details |-> details, response |-> response,
     request_id |-> request_id, url |-> url, method |-> method,
     http_status |-> http_status, cause |-> cause]

\* No exception: what `exc` holds where nothing was raised.
NoExc == Exc("NoException", None, None, None, None, None, None, None, None)

\* isinstance(e, exceptions.NotFoundException): ResourceNotFound is a
\* NotFoundException, which is an HttpException.
IsNotFoundException(e) == e.cls \in {"NotFoundException", "ResourceNotFound"}

\* The errors a session request can end with: the n-th error of class cls,
\* with or without details.
ServerError(cls, n, withDetails, status) ==
    LET t == ToString(n)
    IN Exc(cls, <<"server message", t>>,
           IF withDetails THEN <<"details", t>> ELSE None,
           <<"response", t>>, <<"req", t>>, <<"url", t>>, <<"method", t>>,
           <<status>>, IF withDetails THEN <<"cause", t>> ELSE None)

ServerErrors(cls, status) ==
    { ServerError(cls, n, d, status) : n \in 1..MaxErr, d \in BOOLEAN }

\* ----------------------------------------------------------------- stacks
StackIds == {"s1", "s2"}

\* What a caller passes as `stack`: an ID, or a Stack instance.
StackId(id) == [tag |-> "id", id |-> id]
StackObj(id) == [tag |-> "Stack", id |-> id]
StackArgs == { StackId(i) : i \in StackIds } \cup { StackObj(i) : i \in StackIds }

\* No Stack: what `stack` holds where the lookup returned nothing.
NoStack == [tag |-> "None", id |-> "None"]

\* isinstance(stack, _stack.Stack)
IsStack(x) == x.tag = "Stack"

\* _stack.Stack.__name__
Stack__name__ == "Stack"

\* str(stack): an ID is its own text; a Stack instance prints as its repr.
Str(x) ==
    IF IsStack(x) THEN <<"ecl.orchestration.v1.stack.Stack(id=", x.id, ")">>
    ELSE <<x.id>>

Request(verb, target) == [verb |-> verb, target |-> target]

Returned(v) == [kind |-> "return", val |-> v, exc |-> NoExc]
Raised(e) == [kind |-> "raise", val |-> None, exc |-> e]

NoIter == [passes |-> 0, pos |-> 0, yielded |-> <<>>, done |-> FALSE,
           genpos |-> 0, pulled |-> 0]

\* ---------------------------------------------------------- get_stack
\* The answer of a request that was never issued.
NotAsked == [ok |-> FALSE, exc |-> NoExc]
LookupNotAsked == [ok |-> FALSE, stack |-> NoStack, exc |-> NoExc]

\* What the server answers to the lookup: a Stack (whose id the server
\* chooses) or an error.
LookupAnswers ==
    { [ok |-> TRUE, stack |-> StackObj(i), exc |-> NoExc] : i \in StackIds }
    \cup { [ok |-> FALSE, stack |-> NoStack, exc |-> e] :
             e \in ServerErrors("ResourceNotFound", 404)
                   \cup ServerErrors("HttpException", 500) }

\* What the server answers to the abandon request.
AbandonAnswers ==
    { [ok |-> TRUE, exc |-> NoExc] }
    \cup { [ok |-> FALSE, exc |-> e] :
             e \in ServerErrors("NotFoundException", 404)
                   \cup ServerErrors("HttpException", 500) }

\* Proxy.get_stack(stack): one GET through self._get; returns the Stack or
\* raises.
get_stack(stack, lk) ==
    [reqs |-> <<Request("GET", stack.id)>>,
     out |-> IF lk.ok THEN Returned(lk.stack) ELSE Raised(lk.exc)]

\* Stack.abandon(session): one DELETE of the stack's abandon URL.
Stack_abandon(stack, ab) ==
    [reqs |-> <<Request("DELETE", stack.id)>>,
     out |-> IF ab.ok THEN Returned(None) ELSE Raised(ab.exc)]

\* The try block of abandon_stack (lines 124-126): the requests it issues,
\* the value of the local `stack` when it ends, and how it ends.
abandon_try(stack, lk, ab) ==
    IF IsStack(stack)
    THEN LET a == Stack_abandon(stack, ab)
         IN [reqs |-> a.reqs, stack |-> stack, out |-> a.out]
    ELSE LET g == get_stack(stack, lk)
         IN IF g.out.kind = "raise"
            THEN [reqs |-> g.reqs, stack |-> stack, out |-> g.out]
            ELSE LET a == Stack_abandon(g.out.val, ab)
                 IN [reqs |-> g.reqs \o a.reqs, stack |-> g.out.val, out |-> a.out]

\* exceptions.ResourceNotFound(message="No %s found for %s" % (...), ...)
\* of lines 132-137, built from the error e and the local `stack`.
Reraise(e, stack) ==
    Exc("ResourceNotFound", <<"No ", Stack__name__, " found for ">> \o Str(stack),
        e.details, e.response, e.request_id, e.url, e.method, e.http_status,
        e.cause)

\* abandon_stack with the test of ignore_missing inverted.
abandon_stack_inverted(stack, ignore_missing, lk, ab) ==
    LET t == abandon_try(stack, lk, ab)
    IN [reqs |-> t.reqs,
        out |-> IF t.out.kind = "raise" /\ IsNotFoundException(t.out.exc)
                THEN IF ~ignore_missing THEN Returned(None)
                     ELSE Raised(Reraise(t.out.exc, t.stack))
                ELSE t.out]

\* abandon_stack with an except clause that catches every exception.
abandon_stack_catch_all(stack, ignore_missing, lk, ab) ==
    LET t == abandon_try(stack, lk, ab)
    IN [reqs |-> t.reqs,
        out |-> IF t.out.kind = "raise"
                THEN IF ignore_missing THEN Returned(None)
                     ELSE Raised(Reraise(t.out.exc, t.stack))
                ELSE t.out]

\* Proxy.abandon_stack(stack, ignore_missing), lk and ab being what the
\* server answers to the lookup and to the abandon request.
abandon_stack(stack, ignore_missing, lk, ab) ==
    LET t == abandon_try(stack, lk, ab)
    IN [reqs |-> t.reqs,
        out |-> IF t.out.kind = "raise" /\ IsNotFoundException(t.out.exc)
                THEN IF ignore_missing THEN Returned(None)
                     ELSE Raised(Reraise(t.out.exc, t.stack))
                ELSE t.out]

\* --------------------------------------------------- validate_template
Optional(x) == {None, <<x>>}

\* What the server answers to a template validation.
ValidateAnswers ==
    { [ok |-> TRUE, exc |-> NoExc] }
    \cup { [ok |-> FALSE, exc |-> e] : e \in ServerErrors("HttpException", 400) }

\* Template.validate(session, template, environment, template_url,
\* ignore_errors): one POST; returns the validation result or raises.
Template_validate(template, environment, template_url, ignore_errors, va) ==
    [reqs |-> <<Request("POST", "validate")>>,
     out |-> IF va.ok THEN Returned(<<"validation", template, template_url>>)
             ELSE Raised(va.exc)]

InvalidRequest ==
    Exc("InvalidRequest",
        <<"'template_url' must be specified when template is None">>,
        None, None, None, None, None, None, None)

\* validate_template with the check of its arguments made after the
\* validation request.
validate_template_late_check(template, environment, template_url, ignore_errors, va) ==
    LET v == Template_validate(template, environment, template_url,
                               ignore_errors, va)
    IN [reqs |-> v.reqs, steps |-> <<"Template.new", "Template.validate">>,
        out |-> IF template = None /\ template_url = None
                THEN Raised(InvalidRequest) ELSE v.out]

\* Proxy.validate_template(template, environment, template_url,
\* ignore_errors), va being what the server answers.
validate_template(template, environment, template_url, ignore_errors, va) ==
    IF template = None /\ template_url = None
    THEN [reqs |-> <<>>, steps |-> <<>>, out |-> Raised(InvalidRequest)]
    ELSE LET v == Template_validate(template, environment, template_url,
                                    ignore_errors, va)
         IN [reqs |-> v.reqs, steps |-> <<"Template.new", "Template.validate">>,
             out |-> v.out]

\* ------------------------------------------------------- list methods
Elements == {"e1", "e2"}

RECURSIVE SeqsUpTo(_, _)
\* The sequences over S of length at most n.
SeqsUpTo(S, n) ==
    IF n = 0 THEN {<<>>}
    ELSE LET shorter == SeqsUpTo(S, n - 1)
         IN shorter \cup { Append(s, x) : s \in { t \in shorter : Len(t) = n - 1 }, x \in S }

\* What the server holds for one list call, in server order.
ServerData == SeqsUpTo(Elements, MaxItems)

\* BaseProxy._list(resource_type, ...): a generator over the server's
\* elements; nothing is pulled from the server until it is iterated.
BaseProxy_list(data) == [tag |-> "generator", items |-> data, pulled |-> 0]

\* list(generator): pulls every element now and keeps them in a list.
PyList(gen) == [tag |-> "list", items |-> gen.items, pulled |-> Len(gen.items)]

\* Proxy.stacks(**query)
stacks(data) == PyList(BaseProxy_list(data))

\* Proxy.software_configs(**query)
software_configs(data) == PyList(BaseProxy_list(data))

\* software_deployments wrapped in list(), like its sibling methods.
software_deployments_eager(data) == PyList(BaseProxy_list(data))

\* Proxy.software_deployments(**query)
software_deployments(data) == BaseProxy_list(data)

\* What the server answers to BaseProxy._find(Stack, stack,
\* ignore_missing=False).
FindAnswers ==
    { [ok |-> TRUE, stack |-> StackObj(i), exc |-> NoExc] : i \in StackIds }
    \cup { [ok |-> FALSE, stack |-> NoStack, exc |-> e] :
             e \in ServerErrors("ResourceNotFound", 404) }

\* Proxy.resources(stack, **query): the stack is looked up first unless a
\* Stack instance is given.
resources(stack, fa, data) ==
    IF IsStack(stack)
    THEN [reqs |-> <<>>, out |-> Returned(PyList(BaseProxy_list(data)))]
    ELSE [reqs |-> <<Request("GET", stack.id)>>,
          out |-> IF fa.ok THEN Returned(PyList(BaseProxy_list(data)))
                  ELSE Raised(fa.exc)]

ListMethods == {"stacks", "resources", "software_configs", "software_deployments"}

\* ------------------------------------------------------ SingleFirewall
Range(f) == { f[k] : k \in DOMAIN f }

\* An empty dict.
EmptyDict == [k \in {} |-> ""]

\* d.update(other) of a Python dict.
DictUpdate(d, other) ==
    [k \in DOMAIN d \cup DOMAIN other |-> IF k \in DOMAIN other THEN other[k] ELSE d[k]]

\* SingleFirewall.resource_key (line 20)
resource_key == None

\* The Body attributes SingleFirewall declares (lines 34-58): attribute
\* name -> name on the wire.
BodyMapping ==
    [tenant_id |-> "tenant_id", gt_host |-> "gt_host", sokind |-> "sokind",
     locale |-> "locale", code |-> "code", message |-> "message",
     soid |-> "soId", status |-> "status", records |-> "records",
     rows |-> "rows", devices |-> "devices"]

\* The Header attributes SingleFirewall declares: none.
HeaderMapping == EmptyDict

\* The attribute flagged alternate_id (line 41), by its name on the wire.
AlternateId == "sokind"

\* Resource._filter_component(component, mapping): the entries of
\* component whose key is the wire name of a declared attribute.
FilterComponent(component, mapping) ==
    [k \in DOMAIN component \cap Range(mapping) |-> component[k]]

\* Device with every offset after internal_use shifted by one.
Device_shifted(row) ==
    [internal_use |-> row.cell[1], rows |-> row.cell[2],
     host_name |-> row.cell[4], menu |-> row.cell[5], plan |-> row.cell[6],
     redundancy |-> row.cell[7], availability_zone |-> row.cell[8],
     zone_name |-> row.cell[8]]

\* One row's cell array becomes one device record (lines 71-80); Python's
\* offsets 0..7 are positions 1..8 here.
Device(row) ==
    [internal_use |-> row.cell[1], rows |-> row.cell[2],
     host_name |-> row.cell[3], menu |-> row.cell[4], plan |-> row.cell[5],
     redundancy |-> row.cell[6], availability_zone |-> row.cell[7],
     zone_name |-> row.cell[8]]

\* The loop of lines 69-81.
Devices(rows) == [i \in 1..Len(rows) |-> Device(rows[i])]

\* translate_list_response marking the attributes whose value the response
\* changed as dirty, instead of cleaning.
translate_marks_changed(r, headers, body, has_body) ==
    LET b1 == FilterComponent(body, BodyMapping)
        h1 == FilterComponent(headers, HeaderMapping)
    IN [body |-> IF has_body THEN DictUpdate(r.body, b1) ELSE r.body,
        body_dirty |-> IF has_body
                       THEN { k \in DOMAIN b1 :
                                k \notin DOMAIN r.body \/ r.body[k] # b1[k] }
                       ELSE r.body_dirty,
        header |-> DictUpdate(r.header, h1),
        header_dirty |-> {}]

\* translate_list_response without the filtering of the body and headers.
translate_unfiltered(r, headers, body, has_body) ==
    [body |-> IF has_body THEN DictUpdate(r.body, body) ELSE r.body,
     body_dirty |-> IF has_body THEN {} ELSE r.body_dirty,
     header |-> DictUpdate(r.header, headers),
     header_dirty |-> {}]

\* translate_list_response replacing the attributes instead of updating
\* them.
translate_replacing(r, headers, body, has_body) ==
    [body |-> IF has_body THEN FilterComponent(body, BodyMapping) ELSE r.body,
     body_dirty |-> IF has_body THEN {} ELSE r.body_dirty,
     header |-> FilterComponent(headers, HeaderMapping),
     header_dirty |-> {}]

\* translate_list_response keeping an identifier the instance already has.
translate_keeping_id(r, headers, body, has_body) ==
    LET b1 == FilterComponent(body, BodyMapping)
        b2 == IF "sokind" \in DOMAIN r.body
              THEN [k \in DOMAIN b1 \ {"sokind"} |-> b1[k]] ELSE b1
    IN [body |-> IF has_body THEN DictUpdate(r.body, b2) ELSE r.body,
        body_dirty |-> IF has_body THEN {} ELSE r.body_dirty,
        header |-> DictUpdate(r.header, FilterComponent(headers, HeaderMapping)),
        header_dirty |-> {}]

\* SingleFirewall._translate_list_response(response, body, has_body) on
\* the instance r, headers being response.headers.
translate_list_response(r, headers, body, has_body) ==
    LET b0 == IF resource_key # None /\ resource_key[1] \in DOMAIN body
              THEN body[resource_key[1]] ELSE body
        b1 == FilterComponent(b0, BodyMapping)
        h1 == FilterComponent(headers, HeaderMapping)
    IN [body |-> IF has_body THEN DictUpdate(r.body, b1) ELSE r.body,
        body_dirty |-> IF has_body THEN {} ELSE r.body_dirty,
        header |-> DictUpdate(r.header, h1),
        header_dirty |-> {}]

\* The minimum length of a cell array the reshaping can index (offset 7).
CellLen == 8

\* SingleFirewall.list(session, locale) on the instance r, the session's
\* response having the json body `body` and the headers `headers`: the
\* instance afterwards and how the call ends.
list(r, headers, body) ==
    IF "rows" \notin DOMAIN body
    THEN [res |-> r, out |-> "KeyError"]
    ELSE IF \E i \in 1..Len(body["rows"]) : Len(body["rows"][i].cell) < CellLen
    THEN [res |-> r, out |-> "IndexError"]
    ELSE [res |-> translate_list_response(
                      r, headers,
                      DictUpdate(body, [k \in {"devices"} |-> Devices(body["rows"])]),
                      TRUE),
          out |-> "ok"]

\* Resource.id: the value of the alternate-id attribute, None when it has
\* none.
Identity(r) ==
    IF AlternateId \in DOMAIN r.body THEN <<r.body[AlternateId]>> ELSE None

\* Assigning a declared Body attribute locally (by its wire name): the
\* value is stored and the attribute becomes dirty.
SetBodyAttr(r, k, v) ==
    [r EXCEPT !.body = DictUpdate(r.body, [x \in {k} |-> v]),
              !.body_dirty = r.body_dirty \cup {k}]

\* ------------------------------------------- responses of the session
Cell1 == <<"0", "1", "host-a", "menu", "planA", "0", "az1", "Zone 1">>
Cell2 == <<"1", "2", "host-b", "menu2", "planB", "1", "az2", "Zone 2", "spare">>
ShortCell == <<"0", "1", "host-c", "menu", "planA", "0", "az1">>

Row(cell) == [cell |-> cell]

\* The values of "rows" the server sends.
RowsPool ==
    { <<>>, <<Row(Cell1)>>, <<Row(Cell2), Row(Cell1)>>, <<Row(ShortCell)>> }

\* The json bodies the server sends: with or without a sokind, with or
\* without a group of further fields (two declared, two not declared),
\* with or without rows.
Bodies ==
    { DictUpdate(DictUpdate(s, x), w) :
        s \in { EmptyDict } \cup { [k \in {"sokind"} |-> v] : v \in {"A", "M"} },
        x \in { EmptyDict,
                [k \in {"status", "soId", "soid", "unknown_field"} |->
                    CASE k = "status" -> "1" [] k = "soId" -> "so-1"
                      [] k = "soid" -> "so-2" [] OTHER -> "x"] },
        w \in { EmptyDict } \cup { [k \in {"rows"} |-> rw] : rw \in RowsPool } }

\* The headers the server sends with a response; SingleFirewall declares
\* none of them.
HeadersPool ==
    { [k \in {"Content-Type", "X-Request-Id"} |->
          IF k = "Content-Type" THEN "application/json" ELSE "req-1"] }

Hydrations == {"list", "translate"}

\* -------------------------------------------------------------- states
NoCall == [m |-> "none"]
NoPayload == [body |-> EmptyDict, headers |-> EmptyDict, has_body |-> FALSE]
NewResource ==
    [body |-> EmptyDict, body_dirty |-> {}, header |-> EmptyDict, header_dirty |-> {}]
NoHist == [idFromServer |-> FALSE, idReplaced |-> FALSE, repeat |-> FALSE]

ProxyInit ==
    /\ call = NoCall
    /\ reqs = <<>>
    /\ steps = <<>>
    /\ out = Returned(None)
    /\ it = NoIter

\* SingleFirewall(): an instance with no attribute set.
FwInit ==
    /\ res = NewResource
    /\ payload = NoPayload
    /\ lastOp = "new"
    /\ fwOut = "ok"
    /\ hist = NoHist

Init == ProxyInit /\ FwInit

\* ------------------------------------------------------- Proxy actions
AbandonStack ==
    \E stack \in StackArgs, ignore_missing \in BOOLEAN :
      \E lk \in (IF IsStack(stack) THEN {LookupNotAsked} ELSE LookupAnswers) :
        \E ab \in (IF lk = LookupNotAsked \/ lk.ok THEN AbandonAnswers
                   ELSE {NotAsked}) :
          LET r == abandon_stack(stack, ignore_missing, lk, ab)
          IN /\ call' = [m |-> "abandon_stack", stack |-> stack,
                         ignore_missing |-> ignore_missing, lk |-> lk, ab |-> ab]
             /\ reqs' = r.reqs
             /\ steps' = <<>>
             /\ out' = r.out
             /\ it' = NoIter
             /\ UNCHANGED fwVars

ValidateTemplate ==
    \E template \in Optional("heat_template"), environment \in Optional("env"),
       template_url \in Optional("http://templates/t1"),
       ignore_errors \in Optional("99001") :
      \E va \in (IF template = None /\ template_url = None THEN {NotAsked}
                 ELSE ValidateAnswers) :
        LET r == validate_template(template, environment, template_url,
                                   ignore_errors, va)
        IN /\ call' = [m |-> "validate_template", template |-> template,
                       environment |-> environment, template_url |-> template_url,
                       ignore_errors |-> ignore_errors, va |-> va]
           /\ reqs' = r.reqs
           /\ steps' = r.steps
           /\ out' = r.out
           /\ it' = NoIter
           /\ UNCHANGED fwVars

\* A list-style call that returned `result`.
ListReturned(m, data, result) ==
    /\ call' = [m |-> m, data |-> data]
    /\ out' = Returned(result)
    /\ it' = [NoIter EXCEPT !.pulled = result.pulled]
    /\ steps' = <<>>

Stacks ==
    \E data \in ServerData :
        /\ ListReturned("stacks", data, stacks(data))
        /\ reqs' = <<>>
        /\ UNCHANGED fwVars

SoftwareConfigs ==
    \E data \in ServerData :
        /\ ListReturned("software_configs", data, software_configs(data))
        /\ reqs' = <<>>
        /\ UNCHANGED fwVars

SoftwareDeployments ==
    \E data \in ServerData :
        /\ ListReturned("software_deployments", data, software_deployments(data))
        /\ reqs' = <<>>
        /\ UNCHANGED fwVars

Resources ==
    \E stack \in StackArgs :
      \E fa \in (IF IsStack(stack) THEN {LookupNotAsked} ELSE FindAnswers) :
        \E data \in (IF fa = LookupNotAsked \/ fa.ok THEN ServerData ELSE {<<>>}) :
          LET r == resources(stack, fa, data)
          IN /\ reqs' = r.reqs
             /\ IF r.out.kind = "return"
                THEN ListReturned("resources", data, r.out.val)
                ELSE /\ call' = [m |-> "resources", data |-> data]
                     /\ out' = r.out
                     /\ it' = NoIter
                     /\ steps' = <<>>
             /\ UNCHANGED fwVars

\* The caller starts iterating the result of the list-style call: iter()
\* of a list is a new iterator at its start, iter() of a generator is the
\* generator itself.
IterStart ==
    /\ call.m \in ListMethods
    /\ out.kind = "return"
    /\ it.passes < MaxPasses
    /\ it.passes = 0 \/ it.done
    /\ it' = [it EXCEPT !.passes = @ + 1, !.pos = 0, !.yielded = <<>>, !.done = FALSE]
    /\ UNCHANGED <<call, reqs, steps, out>>
    /\ UNCHANGED fwVars

\* next() on the iterator: the next element, or the end of the iteration.
IterNext ==
    /\ call.m \in ListMethods
    /\ out.kind = "return"
    /\ it.passes > 0
    /\ ~it.done
    /\ IF out.val.tag = "list"
       THEN IF it.pos < Len(out.val.items)
            THEN it' = [it EXCEPT !.pos = @ + 1,
                                  !.yielded = Append(@, out.val.items[it.pos + 1])]
            ELSE it' = [it EXCEPT !.done = TRUE]
       ELSE IF it.genpos < Len(out.val.items)
            THEN it' = [it EXCEPT !.genpos = @ + 1, !.pulled = @ + 1,
                                  !.yielded = Append(@, out.val.items[it.genpos + 1])]
            ELSE it' = [it EXCEPT !.done = TRUE]
    /\ UNCHANGED <<call, reqs, steps, out>>
    /\ UNCHANGED fwVars

Next ==
    \/ AbandonStack
    \/ ValidateTemplate
    \/ Stacks
    \/ SoftwareConfigs
    \/ SoftwareDeployments
    \/ Resources
    \/ IterStart
    \/ IterNext

Spec == Init /\ [][Next]_vars

\* ----------------------------------------------- SingleFirewall actions
\* The response p, handled by the operation op that ended as o, assigned
\* the identifier.
Assigns(op, p, o) ==
    /\ op \in Hydrations
    /\ o = "ok"
    /\ p.has_body
    /\ AlternateId \in DOMAIN p.body

\* What the history says after an operation op that handled the response p
\* and ended as o: whether a response has assigned the identifier, whether
\* this response replaced an identifier a response had assigned, and
\* whether the operation repeated the one before it on the same response.
HistAfter(op, p, o) ==
    [idFromServer |-> hist.idFromServer \/ Assigns(op, p, o),
     idReplaced |-> /\ hist.idFromServer
                    /\ Assigns(op, p, o)
                    /\ <<p.body[AlternateId]>> # Identity(res),
     repeat |-> op \in Hydrations /\ op = lastOp /\ p = payload /\ fwOut = "ok"]

List ==
    \E body \in Bodies, headers \in HeadersPool :
        LET r == list(res, headers, body)
            p == [body |-> body, headers |-> headers, has_body |-> TRUE]
        IN /\ res' = r.res
           /\ fwOut' = r.out
           /\ payload' = p
           /\ lastOp' = "list"
           /\ hist' = HistAfter("list", p, r.out)
           /\ UNCHANGED proxyVars

TranslateListResponse ==
    \E body \in Bodies, headers \in HeadersPool, has_body \in BOOLEAN :
        LET p == [body |-> body, headers |-> headers, has_body |-> has_body]
        IN /\ has_body \/ body = EmptyDict
           /\ res' = translate_list_response(res, headers, body, has_body)
           /\ fwOut' = "ok"
           /\ payload' = p
           /\ lastOp' = "translate"
           /\ hist' = HistAfter("translate", p, "ok")
           /\ UNCHANGED proxyVars

SetAttr ==
    \E v \in {"A", "M"} :
        /\ res' = SetBodyAttr(res, "sokind", v)
        /\ fwOut' = "ok"
        /\ lastOp' = "setattr"
        /\ hist' = HistAfter("setattr", payload, "ok")
        /\ UNCHANGED payload
        /\ UNCHANGED proxyVars

FwNext ==
    \/ List
    \/ TranslateListResponse
    \/ SetAttr

FwSpec == Init /\ [][FwNext]_vars

\* ------------------------------------------------- claims on the Proxy
\* validate_template was called without a template and without a URL.
NothingToValidate ==
    /\ call.m = "validate_template"
    /\ call.template = None
    /\ call.template_url = None

\* C1: validate_template called with template=None and template_url=None
\* raises InvalidRequest, and the call issued no session request and
\* validated no Template object, whatever environment and ignore_errors are.
C1_InvalidRequestBeforeNetwork ==
    NothingToValidate =>
        /\ out.kind = "raise"
        /\ out.exc.cls = "InvalidRequest"
        /\ reqs = <<>>
        /\ steps = <<>>

C1_Witness ==
    /\ NothingToValidate
    /\ call.environment # None
    /\ call.ignore_errors # None
    /\ out.kind = "raise"

\* The lookup request of abandon_stack was issued and failed.
LookupFailed ==
    /\ call.m = "abandon_stack"
    /\ call.lk # LookupNotAsked
    /\ ~call.lk.ok

\* The abandon request of abandon_stack was issued and failed.
AbandonFailed ==
    /\ call.m = "abandon_stack"
    /\ call.ab # NotAsked
    /\ ~call.ab.ok

\* The error the server answered abandon_stack with.
OriginalError == IF LookupFailed THEN call.lk.exc ELSE call.ab.exc

\* abandon_stack met a not-found condition, in the lookup or in the abandon
\* step.
MetNotFound ==
    /\ LookupFailed \/ AbandonFailed
    /\ IsNotFoundException(OriginalError)

\* The original C2: given a not-found condition in abandon_stack,
\* ignore_missing=True returns None without an error, and
\* ignore_missing=False raises ResourceNotFound with non-empty details.
C2_Original ==
    MetNotFound =>
        IF call.ignore_missing
        THEN out = Returned(None)
        ELSE /\ out.kind = "raise"
             /\ out.exc.cls = "ResourceNotFound"
             /\ out.exc.details # None

\* C2, amended: given a not-found condition in abandon_stack, raised by the
\* lookup or by the abandon step, ignore_missing=True returns None without
\* an error, and ignore_missing=False raises ResourceNotFound with the
\* details of the original error (non-empty exactly when those are).
C2_IgnoreMissingTruthTable ==
    MetNotFound =>
        IF call.ignore_missing
        THEN out = Returned(None)
        ELSE /\ out.kind = "raise"
             /\ out.exc.cls = "ResourceNotFound"
             /\ out.exc.details = OriginalError.details

C2_Witness ==
    /\ MetNotFound
    /\ AbandonFailed
    /\ ~call.ignore_missing
    /\ out.kind = "raise"
    /\ out.exc.details # None

\* The message holds the token tok.
Carries(message, tok) == \E i \in DOMAIN message : message[i] = tok

\* C3: whenever abandon_stack(stack, ignore_missing=False) meets a
\* not-found signal, the ResourceNotFound it raises carries in its message
\* the type name "Stack" and the identifier the caller supplied, and its
\* details, response, request_id, url, method, http_status and cause are
\* those of the original error, on every path.
C3_ReraiseCarriesContext ==
    (MetNotFound /\ ~call.ignore_missing) =>
        /\ out.kind = "raise"
        /\ out.exc.cls = "ResourceNotFound"
        /\ Carries(out.exc.message, "Stack")
        /\ Carries(out.exc.message, call.stack.id)
        /\ out.exc.details = OriginalError.details
        /\ out.exc.response = OriginalError.response
        /\ out.exc.request_id = OriginalError.request_id
        /\ out.exc.url = OriginalError.url
        /\ out.exc.method = OriginalError.method
        /\ out.exc.http_status = OriginalError.http_status
        /\ out.exc.cause = OriginalError.cause

\* The requests of the call with the verb v.
Issued(v) == { i \in DOMAIN reqs : reqs[i].verb = v }

\* C10: in abandon_stack an error that is not a not-found condition reaches
\* the caller unchanged for both values of ignore_missing; one call issues
\* at most one lookup request and at most one abandon request, and no
\* abandon request after a failed lookup.
C10_ErrorsReachCallerNoRetry ==
    call.m = "abandon_stack" =>
        /\ Cardinality(Issued("GET")) <= 1
        /\ Cardinality(Issued("DELETE")) <= 1
        /\ LookupFailed => Issued("DELETE") = {}
        /\ ((LookupFailed \/ AbandonFailed) /\ ~IsNotFoundException(OriginalError))
               => out = Raised(OriginalError)

C10_Witness ==
    /\ LookupFailed
    /\ ~IsNotFoundException(OriginalError)
    /\ call.ignore_missing
    /\ out.kind = "raise"

\* A list-style method returned its result.
ListResult == call.m \in ListMethods /\ out.kind = "return"

\* The result is lazy and cannot be restarted: nothing is pulled from the
\* server before the caller iterates, and a second pass yields nothing.
LazyNonRestartable ==
    /\ it.passes = 0 => it.pulled = 0
    /\ it.passes >= 2 => it.yielded = <<>>

WellFormed(body) ==
    /\ "rows" \in DOMAIN body
    /\ \A i \in 1..Len(body["rows"]) : Len(body["rows"][i].cell) >= 8

\* C4: for every response body whose rows each hold a cell array of at
\* least 8 entries, after list returns the devices attribute holds exactly
\* one record per row, in row order, with internal_use=cell[0],
\* rows=cell[1], host_name=cell[2], menu=cell[3], plan=cell[4],
\* redundancy=cell[5], availability_zone=cell[6], zone_name=cell[7].
C4_ListReshapesByOffset ==
    (lastOp = "list" /\ WellFormed(payload.body)) =>
        /\ fwOut = "ok"
        /\ "devices" \in DOMAIN res.body
        /\ Len(res.body["devices"]) = Len(payload.body["rows"])
        /\ \A i \in 1..Len(payload.body["rows"]) :
             LET d == res.body["devices"][i]
                 cell == payload.body["rows"][i].cell
             IN /\ DOMAIN d = {"internal_use", "rows", "host_name", "menu", "plan",
                               "redundancy", "availability_zone", "zone_name"}
                /\ d.internal_use = cell[1]
                /\ d.rows = cell[2]
                /\ d.host_name = cell[3]
                /\ d.menu = cell[4]
                /\ d.plan = cell[5]
                /\ d.redundancy = cell[6]
                /\ d.availability_zone = cell[7]
                /\ d.zone_name = cell[8]

C4_Witness ==
    /\ lastOp = "list"
    /\ WellFormed(payload.body)
    /\ Len(payload.body["rows"]) = 2
    /\ \E i \in 1..2 : Len(payload.body["rows"][i].cell) > 8
    /\ "unknown_field" \in DOMAIN payload.body
    /\ fwOut = "ok"

\* C5: applying _translate_list_response twice in a row with the same body
\* and headers leaves the body and header attribute maps, and the dirty
\* sets, as the first application left them, whatever the instance held
\* before.
C5_HydrationIdempotent ==
    [][(lastOp = "translate" /\ lastOp' = "translate" /\ payload' = payload)
          => res' = res]_vars

C5_Witness ==
    /\ hist.repeat
    /\ lastOp = "translate"
    /\ payload.has_body
    /\ "sokind" \in DOMAIN payload.body
    /\ "unknown_field" \in DOMAIN payload.body

\* The wire names SingleFirewall declares for its body.
DeclaredWireNames ==
    {"tenant_id", "gt_host", "sokind", "locale", "code", "message", "soId",
     "status", "records", "rows", "devices"}

\* C6: hydrating from a body or headers that hold undeclared fields never
\* raises, and after any sequence of hydrations only declared wire names
\* are keys of the body attribute map and no undeclared name is a key of
\* the header attribute map.
C6_UnknownFieldsFiltered ==
    /\ DOMAIN res.body \subseteq DeclaredWireNames
    /\ DOMAIN res.header = {}
    /\ lastOp = "translate" => fwOut = "ok"
    /\ (lastOp = "list" /\ WellFormed(payload.body)) => fwOut = "ok"

C6_Witness ==
    /\ lastOp = "translate"
    /\ payload.has_body
    /\ "unknown_field" \in DOMAIN payload.body
    /\ "soid" \in DOMAIN payload.body
    /\ "X-Request-Id" \in DOMAIN payload.headers
    /\ "status" \in DOMAIN res.body
    /\ fwOut = "ok"

\* The original C7: once a response has assigned the identifier, no later
\* list or hydration on the instance changes the identity.
C7_Original ==
    [][(hist.idFromServer /\ lastOp' \in Hydrations)
          => Identity(res') = Identity(res)]_vars

\* C7, amended: the identity of a SingleFirewall is the sokind of the most
\* recent response that carried one: a list or hydration whose response
\* body carries a sokind sets the identity to it, also when a response had
\* assigned another value before, and any other list or hydration leaves
\* the identity as it was.
C7_IdentityFollowsLatestSokind ==
    [][lastOp' \in Hydrations
          => Identity(res') =
                IF fwOut' = "ok" /\ payload'.has_body
                   /\ "sokind" \in DOMAIN payload'.body
                THEN <<payload'.body["sokind"]>>
                ELSE Identity(res)]_vars

C7_Witness ==
    /\ hist.idFromServer
    /\ hist.idReplaced
    /\ lastOp \in Hydrations
    /\ Identity(res) # None

\* The response body the hydration of the last operation was given: that
\* of list holds the devices list injected.
GivenBody ==
    IF lastOp = "list"
    THEN DictUpdate(payload.body,
                    [k \in {"devices"} |-> Devices(payload.body["rows"])])
    ELSE payload.body

\* The last operation was a hydration from a body that succeeded.
Hydrated == lastOp \in Hydrations /\ fwOut = "ok" /\ payload.has_body

\* The original C8: after a successful hydration the body attribute map is
\* exactly the filtered response body.
C8_Original ==
    Hydrated => res.body = FilterComponent(GivenBody, BodyMapping)

\* C8, amended: a successful hydration updates the body attribute map with
\* the filtered response body: every declared field of the response is
\* captured with the response's value, and an attribute captured earlier
\* that is absent from the response keeps its earlier value.
C8_HydrationMerges ==
    [][(lastOp' \in Hydrations /\ fwOut' = "ok" /\ payload'.has_body)
          => LET given == IF lastOp' = "list"
                          THEN DictUpdate(payload'.body,
                                 [k \in {"devices"} |-> Devices(payload'.body["rows"])])
                          ELSE payload'.body
             IN /\ DOMAIN res'.body =
                     DOMAIN res.body \cup (DOMAIN given \cap DeclaredWireNames)
                /\ \A k \in DOMAIN res'.body :
                     res'.body[k] = IF k \in DOMAIN given THEN given[k]
                                    ELSE res.body[k]]_vars

C8_Witness ==
    /\ Hydrated
    /\ "sokind" \in DOMAIN res.body
    /\ "sokind" \notin DOMAIN payload.body
    /\ "status" \in DOMAIN payload.body
    /\ hist.idFromServer

====
